---- MODULE Spec2Model ----
(***************************************************************************)
(* A model of ara3d's array.h: the position cursors (mem_stride_iterator,  *)
(* const_mem_stride_iterator, func_array_iterator, const_strided_iterator  *)
(* and the raw element pointer), the two bounded-sequence bases, and the   *)
(* concrete sequences built on them, the owning array included.            *)
(*                                                                         *)
(* A cursor is a record tagged with its kind:                              *)
(*   [kind |-> "ptr",     blk, p]        T* into storage block blk         *)
(*   [kind |-> "mem",     data, off, sz] (const_)mem_stride_iterator<T,Off>*)
(*   [kind |-> "func",    func, i]       func_array_iterator<F>            *)
(*   [kind |-> "strided", iter, stride]  const_strided_iterator<IterT>     *)
(* A sequence is a record [variant, iter, size]: the _iter and _size       *)
(* fields of const_array_base / array_base.                                *)
(***************************************************************************)
EXTENDS Integers, Sequences, FiniteSets, TLC

VARIABLES
    S,        \* cursor machine: the sequence under test
    it,       \* cursor machine: the cursor being driven
    visited,  \* cursor machine: elements visited by the traversal
    pc,       \* cursor machine: "idle", "walk", "done", "call", "crashed", "trapped"
    stack,    \* cursor machine: the call frames of operator++ in progress
    old,      \* cursor machine: the cursor as it was when operator++ was called
    result,   \* cursor machine: what the last operator++ / operator- returned
    dist,     \* cursor machine: [n, val] of the last (c + n) - c evaluated
    heap,     \* storage: block -> [state, data, releases]
    objs,     \* ownership machine: handle -> [state, seq, how, from]
    mem,      \* read machine: the byte buffer under the byte-stride sequences
    src,      \* read machine: the source sequence S was constructed from
    via,      \* read machine: how S was constructed from src
    rd,       \* read machine: [op, i, val] of the last element read
    reads,    \* read machine: index -> element reads made at that index
    calls     \* read machine: argument -> invocations of the callable with it

cursorVars == <<S, it, visited, pc, stack, old, result, dist>>

ownVars == <<heap, objs>>

readVars == <<mem, src, via, rd, reads, calls>>

vars == <<S, it, visited, pc, stack, old, result, dist, heap, objs,
          mem, src, via, rd, reads, calls>>

\* ---------------------------------------------------------------- bounds

\* largest size() of a sequence under test
MaxSize == 3
\* largest stride of a const_array_stride
MaxStride == 2
\* largest OffsetN of a byte-stride cursor
MaxOffset == 3
\* largest sizeof(T) of a byte-stride element
MaxSizeofT == 2
\* call frames the machine stack holds before it overflows
StackDepth == 3
\* sequence objects (owning arrays, views, slices) a run constructs
MaxObjs == 2
\* largest length of an owning array
MaxLen == 2

\* the callables wrapped by the function sequences under test
Funcs == {"iota", "seven", "square"}

\* F::operator()(i)
Apply(f, i) ==
    CASE f = "iota" -> i
      [] f = "seven" -> 7
      [] OTHER -> i * i

\* ------------------------------------------------------------- cursors

Ptr(b, p) == [kind |-> "ptr", blk |-> b, p |-> p]

\* mem_stride_iterator(const char* data)
MemIter(data, off, sz) == [kind |-> "mem", data |-> data, off |-> off, sz |-> sz]

\* func_array_iterator(const F& func, size_t i = 0)
FuncIter(f, i) == [kind |-> "func", func |-> f, i |-> i]

\* const_strided_iterator(const iterator& iter, size_t stride)
StridedIter(iter, stride) == [kind |-> "strided", iter |-> iter, stride |-> stride]

\* T* + n
ptr_plus(c, n) == [c EXCEPT !.p = c.p + n]

\* mem_stride_iterator::operator+ and operator+= : _data + OffsetN * n
mem_stride_plus(c, n) == [c EXCEPT !.data = c.data + c.off * n]

\* func_array_iterator::operator+ and operator+= : _i + n
func_plus(c, n) == [c EXCEPT !.i = c.i + n]

RECURSIVE Plus(_, _)
\* const_strided_iterator::operator+ and operator+= : _iter + _stride * n
strided_plus(c, n) == [c EXCEPT !.iter = Plus(c.iter, c.stride * n)]

\* cursor + n, and the cursor after cursor += n
Plus(c, n) ==
    CASE c.kind = "ptr" -> ptr_plus(c, n)
      [] c.kind = "mem" -> mem_stride_plus(c, n)
      [] c.kind = "func" -> func_plus(c, n)
      [] OTHER -> strided_plus(c, n)

\* a step of sizeof(T) bytes where OffsetN bytes are meant
mem_stride_preinc_sizeof(c) == [c EXCEPT !.data = c.data + c.sz]

\* mem_stride_iterator::operator++() : _data += OffsetN
mem_stride_preinc(c) == [c EXCEPT !.data = c.data + c.off]

\* func_array_iterator::operator++() : this->operator+=(1)
func_preinc(c) == func_plus(c, 1)

\* const_strided_iterator::operator++() : _iter += _stride
strided_preinc(c) == [c EXCEPT !.iter = Plus(c.iter, c.stride)]

\* ++cursor
PreInc(c) ==
    CASE c.kind = "ptr" -> ptr_plus(c, 1)
      [] c.kind = "mem" -> mem_stride_preinc(c)
      [] c.kind = "func" -> func_preinc(c)
      [] OTHER -> strided_preinc(c)

RECURSIVE Eq(_, _)
\* operator== : the byte-stride cursors compare _data, the function cursor
\* compares _i alone, the composed cursor compares the inner cursors alone
Eq(a, b) ==
    CASE a.kind = "ptr" -> a.blk = b.blk /\ a.p = b.p
      [] a.kind = "mem" -> a.data = b.data
      [] a.kind = "func" -> a.i = b.i
      [] OTHER -> Eq(a.iter, b.iter)

\* mem_stride_iterator::operator- : _data - iter._data, a count of bytes
mem_stride_minus(a, b) == a.data - b.data

\* func_array_iterator::operator- : _i - iter._i
func_minus(a, b) == a.i - b.i

RECURSIVE Minus(_, _)
RECURSIVE MinusTraps(_, _)
\* const_strided_iterator::operator- : (_iter - iter._iter) / _stride
strided_minus(a, b) == Minus(a.iter, b.iter) \div a.stride

\* a - b, where it is defined
Minus(a, b) ==
    CASE a.kind = "ptr" -> a.p - b.p
      [] a.kind = "mem" -> mem_stride_minus(a, b)
      [] a.kind = "func" -> func_minus(a, b)
      [] OTHER -> strided_minus(a, b)

\* a - b divides by zero: a composed cursor of stride 0, at any depth
MinusTraps(a, b) ==
    /\ a.kind = "strided"
    /\ (a.stride = 0 \/ MinusTraps(a.iter, b.iter))

\* ----------------------------------------------------------- sequences

\* const_array_base(iterator begin, size_t size) / array_base(begin, size)
Base(variant, begin, size) == [variant |-> variant, iter |-> begin, size |-> size]

\* array_view(IterT begin, size_t size)
array_view(begin, size) == Base("array_view", begin, size)

\* const_array_view(IterT begin, size_t size)
const_array_view(begin, size) == Base("const_array_view", begin, size)

\* array_slice(IterT begin, size_t size)
array_slice(begin, size) == Base("array_slice", begin, size)

\* const_array_slice(IterT begin, size_t size)
const_array_slice(begin, size) == Base("const_array_slice", begin, size)

\* const_array_stride(begin, size, stride) : const_array_base(IterT(begin, stride), size)
const_array_stride(begin, size, stride) ==
    Base("const_array_stride", StridedIter(begin, stride), size)

\* const_array_mem_stride<ValueT, OffsetN>(begin, size) : BaseT(IterT(begin), size)
const_array_mem_stride(begin, size, off, sz) ==
    Base("const_array_mem_stride", MemIter(begin, off, sz), size)

\* array_mem_stride<ValueT, OffsetN>(begin, size) : BaseT(IterT(begin), size)
array_mem_stride(begin, size, off, sz) ==
    Base("array_mem_stride", MemIter(begin, off, sz), size)

\* func_array(F func, size_t size) : BaseT(IterT(func), size)
func_array(f, size) == Base("func_array", FuncIter(f, 0), size)

\* begin() : _iter
begin(s) == s.iter

\* size() : _size
size(s) == s.size

\* end() : begin() + size()
end(s) == Plus(begin(s), size(s))

\* empty() : size() == 0
empty(s) == size(s) = 0

\* ------------------------------------------------------------- storage
\* A block is one allocation of new T[n]: its elements, whether it is still
\* allocated, and how many times delete[] was applied to it.

\* the element values stored by the writes: two that can be told apart
Values == {0, 1}

\* one block for every array a run can construct: new[] never runs out
Blocks == 1..MaxObjs

Handles == 1..MaxObjs

NoBlock == [state |-> "unused", data |-> <<>>, releases |-> 0]

NoHeap == [b \in Blocks |-> NoBlock]

NoObj == [state |-> "unborn", seq |-> Base("none", Ptr(0, 0), 0), how |-> "none", from |-> 0]

NoObjs == [h \in Handles |-> NoObj]

\* the element a pointer cursor designates; elements are numbered from 0
ptr_index(c, n) == heap[c.blk].data[c.p + n + 1]

\* the pointer cursor designates an element of allocated storage
ptr_valid(c, n) ==
    /\ c.blk \in Blocks
    /\ heap[c.blk].state = "live"
    /\ c.p + n + 1 \in 1..Len(heap[c.blk].data)

\* array_base::operator[](n) on a contiguous sequence : begin()[n]
ReadAt(s, n) == ptr_index(begin(s), n)

\* array_base::operator[](n) = v on a contiguous sequence : begin()[n] = v
StoreAt(s, n, v) ==
    [heap EXCEPT ![begin(s).blk].data[begin(s).p + n + 1] = v]

\* what an element holds before anything is stored in it: new T[size]
\* default-initialises its elements
Indeterminate == -1

\* new T[size] : a block not handed out before, of size default-initialised elements
NewBlock(n) == [state |-> "live", data |-> [k \in 1..n |-> Indeterminate], releases |-> 0]

\* delete[] p : the block is released, once more, and its elements are gone
Released(b) ==
    [heap EXCEPT ![b].state = "released", ![b].data = <<>>, ![b].releases = @ + 1]

\* --------------------------------------------------- element access

\* the T-sized value stored at byte address a: sz consecutive bytes
ReadT(a, sz) == [k \in 1..sz |-> mem[a + k]]

\* mem_stride_iterator::operator[](n) : *(const T*)(_data + OffsetN * n)
mem_stride_index(c, n) == ReadT(c.data + c.off * n, c.sz)

\* mem_stride_iterator::operator*() : *(T*)_data
mem_stride_deref(c) == ReadT(c.data, c.sz)

\* func_array_iterator::operator[](n) : _func(_i + n)
func_index(c, n) == Apply(c.func, c.i + n)

\* func_array_iterator::operator*() : _func(_i)
func_deref(c) == Apply(c.func, c.i)

RECURSIVE Index(_, _)
RECURSIVE Deref(_)
RECURSIVE Valid(_, _)
RECURSIVE FuncArg(_, _)
\* const_strided_iterator::operator[](n) : _iter[n * _stride]
strided_index(c, n) == Index(c.iter, n * c.stride)

\* const_strided_iterator::operator*() : *_iter
strided_deref(c) == Deref(c.iter)

\* cursor[n]
Index(c, n) ==
    CASE c.kind = "ptr" -> ptr_index(c, n)
      [] c.kind = "mem" -> mem_stride_index(c, n)
      [] c.kind = "func" -> func_index(c, n)
      [] OTHER -> strided_index(c, n)

\* *cursor
Deref(c) ==
    CASE c.kind = "ptr" -> ptr_index(c, 0)
      [] c.kind = "mem" -> mem_stride_deref(c)
      [] c.kind = "func" -> func_deref(c)
      [] OTHER -> strided_deref(c)

\* cursor[n] designates storage that exists (a computed element always does)
Valid(c, n) ==
    CASE c.kind = "ptr" -> ptr_valid(c, n)
      [] c.kind = "mem" -> c.data + c.off * n + c.sz <= Len(mem)
      [] c.kind = "func" -> TRUE
      [] OTHER -> Valid(c.iter, n * c.stride)

\* the argument the callable is invoked with by cursor[n], -1 when cursor[n]
\* reads storage and invokes nothing
FuncArg(c, n) ==
    CASE c.kind = "func" -> c.i + n
      [] c.kind = "strided" -> FuncArg(c.iter, n * c.stride)
      [] OTHER -> -1

\* the cursor's operator[] returns value_type, a temporary, where the storage
\* cursors return a reference to the element
ByValue(c) == c.kind \in {"func", "strided"}

\* what a read through a reference to a destroyed temporary can give: the
\* value the temporary had, or whatever has taken its place on the stack
DanglingReads(right) == {right, Indeterminate} \cup Values

\* const_array_base::operator[](n) and array_base::operator[](n) const :
\* return begin()[n], as const value_type&. Over a cursor whose operator[]
\* returns by value the reference is to a temporary that is destroyed before
\* the caller reads it: undefined behaviour, any of DanglingReads
base_index(s, n) ==
    IF ByValue(begin(s))
        THEN DanglingReads(Index(begin(s), n))
        ELSE {Index(begin(s), n)}

\* the read machine before anything is read
NoRead == [op |-> "none", i |-> 0, val |-> 0]

ReadQuiet ==
    /\ mem = <<>>
    /\ src = Base("none", Ptr(0, 0), 0)
    /\ via = [kind |-> "whole", offset |-> 0, stride |-> 1]
    /\ rd = NoRead
    /\ reads = <<>>
    /\ calls = <<>>

\* ------------------------------------------------------ cursor machine
\* One sequence of any variant is constructed; a caller then either walks it
\* from begin() to end(), measures (begin() + n) - begin(), or calls one of
\* the cursor's increment operators.

\* the start cursors a sequence is built over: an element pointer, a
\* byte-stride cursor, a function cursor
PtrStarts == {Ptr(0, o) : o \in 0..1}

FuncStarts == {FuncIter(f, 0) : f \in Funcs}

\* the sequences under test, every variant of the header
CursorSeqs ==
    UNION {
        {Base("array", Ptr(0, 0), n) : n \in 0..MaxSize},
        {array_view(b, n) : b \in PtrStarts, n \in 0..MaxSize},
        {const_array_view(b, n) : b \in PtrStarts, n \in 0..MaxSize},
        {array_slice(b, n) : b \in PtrStarts, n \in 0..MaxSize},
        {const_array_slice(b, n) : b \in PtrStarts \cup FuncStarts, n \in 0..MaxSize},
        {const_array_stride(b, n, k) :
            b \in PtrStarts \cup FuncStarts, n \in 0..MaxSize, k \in 0..MaxStride},
        {array_mem_stride(0, n, off, sz) :
            n \in 0..MaxSize, off \in 0..MaxOffset, sz \in 1..MaxSizeofT},
        {const_array_mem_stride(0, n, off, sz) :
            n \in 0..MaxSize, off \in 0..MaxOffset, sz \in 1..MaxSizeofT},
        {func_array(f, n) : f \in Funcs, n \in 0..MaxSize}
    }

CursorInit ==
    /\ S \in CursorSeqs
    /\ it = begin(S)
    /\ visited = 0
    /\ pc = "idle"
    /\ stack = <<>>
    /\ old = begin(S)
    /\ result = begin(S)
    /\ dist = [n |-> 0, val |-> 0]
    /\ heap = NoHeap
    /\ objs = NoObjs
    /\ ReadQuiet

\* for (auto it = s.begin(); ...
StartWalk ==
    /\ pc = "idle"
    /\ pc' = "walk"
    /\ it' = begin(S)
    /\ visited' = 0
    /\ UNCHANGED <<S, stack, old, result, dist, ownVars, readVars>>

\* ... it != s.end(); ++it) visit(*it);
WalkStep ==
    /\ pc = "walk"
    /\ ~Eq(it, end(S))
    /\ visited <= MaxSize
    /\ visited' = visited + 1
    /\ it' = PreInc(it)
    /\ UNCHANGED <<S, pc, stack, old, result, dist, ownVars, readVars>>

\* the loop condition it != s.end() fails
WalkEnd ==
    /\ pc = "walk"
    /\ Eq(it, end(S))
    /\ pc' = "done"
    /\ UNCHANGED <<S, it, visited, stack, old, result, dist, ownVars, readVars>>

\* (c + n) - c for the cursor c = begin()
Distance(n) ==
    /\ pc = "idle"
    /\ ~MinusTraps(Plus(it, n), it)
    /\ dist' = [n |-> n, val |-> Minus(Plus(it, n), it)]
    /\ UNCHANGED <<S, it, visited, pc, stack, old, result, ownVars, readVars>>

\* (c + n) - c where operator- divides by a stride of 0: undefined behaviour,
\* an integer-division trap on x86 or a quotient of 0 on ARM
DistanceByZero(n) ==
    /\ pc = "idle"
    /\ MinusTraps(Plus(it, n), it)
    /\ \/ pc' = "trapped" /\ dist' = dist
       \/ pc' = pc /\ dist' = [n |-> n, val |-> 0]
    /\ UNCHANGED <<S, it, visited, stack, old, result, ownVars, readVars>>

Frame(op, at, r) == [op |-> op, at |-> at, r |-> r]

Top == stack[Len(stack)]

SetTop(fr) == [stack EXCEPT ![Len(stack)] = fr]

\* the caller evaluates ++it
CallPreInc ==
    /\ pc = "idle"
    /\ pc' = "call"
    /\ old' = it
    /\ stack' = <<Frame("preinc", "body", it)>>
    /\ UNCHANGED <<S, it, visited, result, dist, ownVars, readVars>>

\* the caller evaluates it++
CallPostInc ==
    /\ pc = "idle"
    /\ pc' = "call"
    /\ old' = it
    /\ stack' = <<Frame("postinc", "body", it)>>
    /\ UNCHANGED <<S, it, visited, result, dist, ownVars, readVars>>

\* operator++() { <advance>; return *this; }
PreIncBody ==
    /\ pc = "call"
    /\ Top.op = "preinc"
    /\ Top.at = "body"
    /\ it' = PreInc(it)
    /\ stack' = SetTop(Frame("preinc", "ret", PreInc(it)))
    /\ UNCHANGED <<S, visited, pc, old, result, dist, ownVars, readVars>>

\* operator++(int) { X r = *this; (*this)++; ... : the postfix form on *this
\* is operator++(int) again, a new frame of the same function
PostIncBody ==
    /\ pc = "call"
    /\ Top.op = "postinc"
    /\ Top.at = "body"
    /\ Len(stack) < StackDepth
    /\ stack' = Append(SetTop(Frame("postinc", "wait", it)), Frame("postinc", "body", it))
    /\ UNCHANGED <<S, it, visited, pc, old, result, dist, ownVars, readVars>>

\* the machine stack is exhausted by the nested calls
StackOverflow ==
    /\ pc = "call"
    /\ Top.op = "postinc"
    /\ Top.at = "body"
    /\ Len(stack) >= StackDepth
    /\ pc' = "crashed"
    /\ UNCHANGED <<S, it, visited, stack, old, result, dist, ownVars, readVars>>

\* a frame returns: to the caller of the operator, or to the operator++(int)
\* frame waiting on it, whose next statement is return r
Return ==
    /\ pc = "call"
    /\ Top.at = "ret"
    /\ IF Len(stack) = 1
          THEN /\ pc' = "returned"
               /\ result' = Top.r
               /\ stack' = <<>>
          ELSE /\ pc' = pc
               /\ result' = result
               /\ stack' = [SubSeq(stack, 1, Len(stack) - 1) EXCEPT
                               ![Len(stack) - 1].at = "ret"]
    /\ UNCHANGED <<S, it, visited, old, dist, ownVars, readVars>>

CursorNext ==
    \/ StartWalk
    \/ WalkStep
    \/ WalkEnd
    \/ \E n \in 0..MaxSize : Distance(n)
    \/ \E n \in 0..MaxSize : DistanceByZero(n)
    \/ CallPreInc
    \/ CallPostInc
    \/ PreIncBody
    \/ PostIncBody
    \/ StackOverflow
    \/ Return

CursorSpec == CursorInit /\ [][CursorNext]_vars

\* the operators run to completion once called: every step that is enabled
\* is eventually taken
FairCursorSpec == CursorSpec /\ WF_vars(CursorNext)


\* --------------------------------------------------- ownership machine
\* Owning arrays are constructed, views and slices are constructed over
\* them, elements are written through any of them, and every object is
\* destroyed once, in any order.

Obj(seq, how, from) == [state |-> "alive", seq |-> seq, how |-> how, from |-> from]

IsArray(h) == objs[h].seq.variant = "array"

\* handles name the objects in the order of their construction
Fresh(h) ==
    /\ objs[h].state = "unborn"
    /\ \A g \in Handles : objs[g].state = "unborn" => h <= g

Alive(h) == objs[h].state = "alive"

\* array(size_t size) : BaseT(new T[size], size)
NewArray(h, n) ==
    /\ Fresh(h)
    /\ \E b \in Blocks :
        /\ heap[b].state = "unused"
        /\ \A c \in Blocks : heap[c].state = "unused" => b <= c
        /\ heap' = [heap EXCEPT ![b] = NewBlock(n)]
        /\ objs' = [objs EXCEPT ![h] = Obj(Base("array", Ptr(b, 0), n), "new", 0)]
    /\ UNCHANGED <<cursorVars, readVars>>

\* a view that copies the elements into storage of its own
MakeView_copies(h, a) ==
    /\ Fresh(h)
    /\ Alive(a)
    /\ IsArray(a)
    /\ \E b \in Blocks :
        /\ heap[b].state = "unused"
        /\ heap' = [heap EXCEPT ![b] = heap[begin(objs[a].seq).blk]]
        /\ objs' = [objs EXCEPT ![h] =
                      Obj(array_view(Ptr(b, 0), size(objs[a].seq)), "view", a)]
    /\ UNCHANGED <<cursorVars, readVars>>

\* array_view<T> v(a.begin(), a.size())
MakeView(h, a) ==
    /\ Fresh(h)
    /\ Alive(a)
    /\ IsArray(a)
    /\ objs' = [objs EXCEPT ![h] =
                  Obj(array_view(begin(objs[a].seq), size(objs[a].seq)), "view", a)]
    /\ UNCHANGED <<heap, cursorVars, readVars>>

\* array_slice<array<T>> s(a.begin() + offset, len)
MakeSlice(h, a, offset, len) ==
    /\ Fresh(h)
    /\ Alive(a)
    /\ IsArray(a)
    /\ offset + len <= size(objs[a].seq)
    /\ objs' = [objs EXCEPT ![h] =
                  Obj(array_slice(Plus(begin(objs[a].seq), offset), len), "slice", a)]
    /\ UNCHANGED <<heap, cursorVars, readVars>>

\* array<T> c(a), c = a : no copy constructor or assignment is declared, so
\* the implicit ones copy the members _iter and _size
CopyArray(h, a) ==
    /\ Fresh(h)
    /\ Alive(a)
    /\ IsArray(a)
    /\ objs' = [objs EXCEPT ![h] =
                  Obj(Base("array", objs[a].seq.iter, objs[a].seq.size), "copy", a)]
    /\ UNCHANGED <<heap, cursorVars, readVars>>

\* s[i] = v through any handle, inside its bounds and on storage still allocated
Write(h, i, v) ==
    /\ Alive(h)
    /\ i < size(objs[h].seq)
    /\ ptr_valid(begin(objs[h].seq), i)
    /\ heap' = StoreAt(objs[h].seq, i, v)
    /\ UNCHANGED <<objs, cursorVars, readVars>>

\* ~array() { delete[] BaseT::begin(); }
DestroyArray(h) ==
    /\ Alive(h)
    /\ IsArray(h)
    /\ heap' = Released(begin(objs[h].seq).blk)
    /\ objs' = [objs EXCEPT ![h].state = "dead"]
    /\ UNCHANGED <<cursorVars, readVars>>

\* a view with the owning array's destructor
DestroyView_releases(h) ==
    /\ Alive(h)
    /\ ~IsArray(h)
    /\ heap' = Released(begin(objs[h].seq).blk)
    /\ objs' = [objs EXCEPT ![h].state = "dead"]
    /\ UNCHANGED <<cursorVars, readVars>>

\* array_view and array_slice declare no destructor: the object goes away
DestroyView(h) ==
    /\ Alive(h)
    /\ ~IsArray(h)
    /\ objs' = [objs EXCEPT ![h].state = "dead"]
    /\ UNCHANGED <<heap, cursorVars, readVars>>

OwnInit ==
    /\ heap = NoHeap
    /\ objs = NoObjs
    /\ S = Base("none", Ptr(0, 0), 0)
    /\ it = Ptr(0, 0)
    /\ visited = 0
    /\ pc = "idle"
    /\ stack = <<>>
    /\ old = Ptr(0, 0)
    /\ result = Ptr(0, 0)
    /\ dist = [n |-> 0, val |-> 0]
    /\ ReadQuiet

OwnNext ==
    \/ \E h \in Handles, n \in 0..MaxLen : NewArray(h, n)
    \/ \E h, a \in Handles : MakeView(h, a)
    \/ \E h, a \in Handles, offset, len \in 0..MaxLen : MakeSlice(h, a, offset, len)
    \/ \E h \in Handles, i \in 0..MaxLen, v \in Values : Write(h, i, v)
    \/ \E h \in Handles : DestroyArray(h)
    \/ \E h \in Handles : DestroyView(h)

\* constructions, writes and destructions, no array ever copied
OwnSpec == OwnInit /\ [][OwnNext]_vars

CopyNext ==
    \/ OwnNext
    \/ \E h, a \in Handles : CopyArray(h, a)

\* the same, with owning arrays also copied
CopySpec == OwnInit /\ [][CopyNext]_vars

\* -------------------------------------------------------- read machine
\* A source sequence exists; S is the source itself, an index-strided slice
\* of it or a sub-range of it. Elements of S are then read: by S[i], by
\* *(S.begin() + i), and by stepping a cursor from S.begin().

\* elements of the contiguous source buffer, all different
DataLen == MaxSize * MaxStride + 1

SrcData == [k \in 1..DataLen |-> 10 + k]

\* bytes of the buffer under the byte-stride sequences, all different
MemLen == 1 + MaxSize * MaxOffset + MaxSizeofT

MemBytes == [a \in 1..MemLen |-> 100 + a]

\* the largest index and callable argument a read can use
MaxIdx == MaxSize * MaxStride

\* reads a run makes
MaxReads == 2

ReadSources ==
    UNION {
        {array_view(Ptr(1, 0), n) : n \in 0..MaxSize},
        {func_array(f, n) : f \in Funcs, n \in 0..MaxSize},
        {array_mem_stride(b, n, off, sz) :
            b \in 0..1, n \in 0..MaxSize, off \in 0..MaxOffset, sz \in 1..MaxSizeofT},
        {const_array_mem_stride(b, n, off, sz) :
            b \in 0..1, n \in 0..MaxSize, off \in 0..MaxOffset, sz \in 1..MaxSizeofT},
        {const_array_stride(b, n, k) :
            b \in {Ptr(1, 0)} \cup FuncStarts, n \in 0..MaxSize, k \in 1..MaxStride}
    }

Whole == [kind |-> "whole", offset |-> 0, stride |-> 1]

\* S is the source itself
IsWhole ==
    /\ via = Whole
    /\ S = src

\* const_array_stride<Src> S(src.begin(), n, k), every element of S inside src
IsStride ==
    /\ src.variant \in {"array_view", "func_array"}
    /\ \E n \in 0..MaxSize, k \in 0..MaxStride :
        /\ n = 0 \/ (n - 1) * k < size(src)
        /\ via = [kind |-> "stride", offset |-> 0, stride |-> k]
        /\ S = const_array_stride(begin(src), n, k)

\* const_array_slice<Src> S(src.begin() + offset, len), inside src
IsSub ==
    \E offset, len \in 0..MaxSize :
        /\ offset + len <= size(src)
        /\ via = [kind |-> "sub", offset |-> offset, stride |-> 1]
        /\ S = const_array_slice(Plus(begin(src), offset), len)

ReadInit ==
    /\ heap = [NoHeap EXCEPT ![1] = [state |-> "live", data |-> SrcData, releases |-> 0]]
    /\ objs = NoObjs
    /\ mem = MemBytes
    /\ src \in ReadSources
    /\ (IsWhole \/ IsStride \/ IsSub)
    /\ it = begin(S)
    /\ visited = 0
    /\ rd = NoRead
    /\ reads = [i \in 0..MaxIdx |-> 0]
    /\ calls = [i \in 0..MaxIdx |-> 0]
    /\ pc = "idle"
    /\ stack = <<>>
    /\ old = begin(S)
    /\ result = begin(S)
    /\ dist = [n |-> 0, val |-> 0]

RECURSIVE SumTo(_, _)
SumTo(f, n) == IF n < 0 THEN 0 ELSE f[n] + SumTo(f, n - 1)

\* the element reads made so far
ReadsMade == SumTo(reads, MaxIdx)

\* the callable was invoked once more, if cursor[n] invokes it
Invoked(c, n) ==
    IF FuncArg(c, n) < 0 THEN calls ELSE [calls EXCEPT ![FuncArg(c, n)] = @ + 1]

\* x = S[i]
ReadIndex(i) ==
    /\ i < size(S)
    /\ Valid(begin(S), i)
    /\ ReadsMade < MaxReads
    /\ \E v \in base_index(S, i) : rd' = [op |-> "index", i |-> i, val |-> v]
    /\ reads' = [reads EXCEPT ![i] = @ + 1]
    /\ calls' = Invoked(begin(S), i)
    /\ UNCHANGED <<S, it, visited, mem, src, via, pc, stack, old, result, dist, ownVars>>

\* x = *(S.begin() + i)
ReadOffset(i) ==
    /\ i < size(S)
    /\ Valid(begin(S), i)
    /\ ReadsMade < MaxReads
    /\ rd' = [op |-> "offset", i |-> i, val |-> Deref(Plus(begin(S), i))]
    /\ reads' = [reads EXCEPT ![i] = @ + 1]
    /\ calls' = Invoked(begin(S), i)
    /\ UNCHANGED <<S, it, visited, mem, src, via, pc, stack, old, result, dist, ownVars>>

\* ++it, for a cursor that started at S.begin()
Advance ==
    /\ visited < size(S)
    /\ it' = PreInc(it)
    /\ visited' = visited + 1
    /\ UNCHANGED <<S, mem, src, via, rd, reads, calls, pc, stack, old, result, dist, ownVars>>

\* x = *it
ReadCursor ==
    /\ visited < size(S)
    /\ Valid(begin(S), visited)
    /\ ReadsMade < MaxReads
    /\ rd' = [op |-> "cursor", i |-> visited, val |-> Deref(it)]
    /\ reads' = [reads EXCEPT ![visited] = @ + 1]
    /\ calls' = Invoked(it, 0)
    /\ UNCHANGED <<S, it, visited, mem, src, via, pc, stack, old, result, dist, ownVars>>

ReadNext ==
    \/ \E i \in 0..MaxSize : ReadIndex(i)
    \/ \E i \in 0..MaxSize : ReadOffset(i)
    \/ Advance
    \/ ReadCursor

ReadSpec == ReadInit /\ [][ReadNext]_vars

\* ------------------------------------------------------------- claims

\* C1: for every sequence variant and every size, end() is begin() advanced
\* by size(), and a walk from begin() that advances one position at a time
\* until the cursor equals end() visits exactly size() elements.
C1_WalkVisitsSize ==
    /\ Eq(end(S), Plus(begin(S), size(S)))
    /\ pc = "done" => visited = size(S)

\* C9: every post-increment that is called returns, leaving the cursor one
\* logical position further (where ++it and it += 1 leave it) and returning
\* the position before the advance.
C9_PostIncReturns ==
    [](pc = "call" /\ stack[1].op = "postinc"
         => <>(/\ pc = "returned"
               /\ it = PreInc(old)
               /\ it = Plus(old, 1)
               /\ result = old))

\* pre-increment, by contrast, returns with the cursor advanced
PreIncReturns ==
    [](pc = "call" /\ stack[1].op = "preinc"
         => <>(pc = "returned" /\ it = Plus(old, 1) /\ result = it))

\* C10: distance inverts offset in logical positions, (c + n) - c = n, for
\* every cursor kind, any byte offset and any stride, stride 0 included
\* (where the subtraction must neither trap nor give another number).
C10_DistanceInvertsOffset ==
    /\ pc # "trapped"
    /\ dist.val = dist.n

\* the storage block an object's begin() points into
BlockOf(h) == begin(objs[h].seq).blk

\* the owning arrays that were constructed by array(size), alive or not
Owner(h, b) == objs[h].how = "new" /\ BlockOf(h) = b

\* C2: after an owning array is copied, the copy and the original never
\* refer to the same storage block, and destroying both never releases a
\* block twice.
C2_CopyDoesNotShare ==
    /\ \A h \in Handles :
          objs[h].how = "copy" => BlockOf(h) # BlockOf(objs[h].from)
    /\ \A b \in Blocks : heap[b].releases <= 1

\* C3: the storage an owning array allocated is released exactly once and
\* only by destroying that array: a block is released once its array is
\* destroyed and not before, never twice ...
StorageFollowsOwner ==
    \A b \in Blocks :
        /\ heap[b].releases <= 1
        /\ heap[b].state = "live" <=> \E h \in Handles : Owner(h, b) /\ Alive(h)
        /\ heap[b].releases = 1 <=> \E h \in Handles : Owner(h, b) /\ objs[h].state = "dead"

\* ... and destroying a view or slice releases nothing and leaves the
\* storage and its contents as they were.
ViewDestroyed(h) == Alive(h) /\ ~IsArray(h) /\ objs'[h].state = "dead"

C3_ReleasedOnceByOwner ==
    /\ []StorageFollowsOwner
    /\ [][\A h \in Handles : ViewDestroyed(h) => heap' = heap]_vars

\* an array and a view of it were both destroyed, the view after the array
\* or before it
C3_Witness ==
    \E a, v \in Handles :
        /\ objs[a].how = "new" /\ objs[a].state = "dead"
        /\ objs[v].how \in {"view", "slice"} /\ objs[v].from = a
        /\ objs[v].state = "dead"
        /\ heap[BlockOf(a)].releases = 1

\* a view and the array it was constructed over, both alive
ViewOf(v, a) ==
    /\ Alive(v) /\ objs[v].how = "view" /\ objs[v].from = a
    /\ Alive(a)

\* the elements read through handle h, in order
Contents(h) == [i \in 0..(size(objs[h].seq) - 1) |-> ReadAt(objs[h].seq, i)]

\* C4: a view over an owning array has the array's size and elements ...
ViewAliasesArray ==
    \A v, a \in Handles :
        ViewOf(v, a) =>
            /\ size(objs[v].seq) = size(objs[a].seq)
            /\ Contents(v) = Contents(a)

\* ... and a write of v at index i through either handle is read back as v
\* at i through both, every other index keeping its value.
WriteSeenThroughBoth ==
    \A v, a \in Handles :
        ViewOf(v, a) =>
            \A h \in {v, a}, i \in 0..MaxLen, x \in Values :
                Write(h, i, x) =>
                    /\ Contents(v)' = [Contents(v) EXCEPT ![i] = x]
                    /\ Contents(a)' = [Contents(a) EXCEPT ![i] = x]

C4_ViewAliasesArray ==
    /\ []ViewAliasesArray
    /\ [][WriteSeenThroughBoth]_vars

\* a view over a live array of two elements, both written, with different values
C4_Witness ==
    \E v, a \in Handles :
        /\ ViewOf(v, a)
        /\ size(objs[v].seq) = 2
        /\ Contents(v) = [i \in 0..1 |-> i]
        /\ Contents(a) = Contents(v)

\* the element at position j of the source, by the source's layout
SourceElem(j) ==
    LET c == begin(src) IN
    CASE c.kind = "ptr" -> SrcData[c.p + j + 1]
      [] c.kind = "func" -> Apply(c.func, j)
      [] c.kind = "mem" -> [k \in 1..c.sz |-> mem[c.data + j * c.off + k]]
      [] OTHER ->
           IF c.iter.kind = "ptr"
               THEN SrcData[c.iter.p + j * c.stride + 1]
               ELSE Apply(c.iter.func, j * c.stride)

\* C5: an index-strided slice with stride k over a source of length L has
\* size L / k, and each element read from it, slice[i], is source[i * k].
C5_StridedSlice ==
    via.kind = "stride" /\ rd.op = "index" =>
        /\ via.stride > 0 => size(S) = size(src) \div via.stride
        /\ rd.val = SourceElem(rd.i * via.stride)

\* C6: for sub = subrange(source, offset, len), of any source variant, each
\* element read from it, sub[i], is source[offset + i].
C6_Subrange ==
    via.kind = "sub" =>
        (rd.op = "index" => rd.val = SourceElem(via.offset + rd.i))

FuncCase == S.variant = "func_array" /\ via = Whole

\* C7: for a function sequence wrapping f, every element read, by sequence[i]
\* or through begin() + i, is f(i), and the reads made at an index are as
\* many as the invocations of f with it.
C7_FuncArrayReads ==
    FuncCase =>
        /\ rd.op # "none" => rd.val = Apply(begin(S).func, rd.i)
        /\ \A i \in 0..MaxIdx : calls[i] = reads[i]

MemCase == S.variant \in {"array_mem_stride", "const_array_mem_stride"} /\ via = Whole

\* the T-sized value at byte address a of the buffer
ValueAtByte(a, sz) == [k \in 1..sz |-> mem[a + k]]

====
